---- MODULE Spec2Model ----
(***************************************************************************)
(* lume-model: the variable types of lume_model/variables.py (pydantic     *)
(* models composed from Variable, InputVariable/OutputVariable and the     *)
(* ImageVariable/ScalarVariable mixins), and the persistence and           *)
(* configuration loaders of lume_model/utils.py.                           *)
(***************************************************************************)
EXTENDS Integers, Sequences, FiniteSets, TLC

VARIABLES
    pc,             \* "call" before the operation under study ran, "done" after
    cls,            \* the concrete variable class being constructed
    kwargs,         \* the keyword arguments of the constructor call
    ret,            \* how the last call ended: returned / raised / exit, and its value
    attribs,        \* what dict() returned for the constructed object
    variable_file,  \* the content of the file save_variables writes, or NoFile
    input_variables,    \* the input mapping of the last save_variables call
    output_variables,   \* the output mapping of the last save_variables call
    saved,          \* history: the mappings of the last save that wrote the file
    config,         \* the parsed configuration document (yaml.safe_load's result)
    model_class,    \* model_from_yaml's model_class argument
    load_model      \* model_from_yaml's load_model argument

constructVars == <<cls, kwargs, attribs>>
persistVars == <<variable_file, input_variables, output_variables, saved>>
configVars == <<config, model_class, load_model>>
vars == <<pc, ret, constructVars, persistVars, configVars>>

(***************************************************************************)
(* Python values.  Every value is a record of one shape, so that any two   *)
(* can be compared: t is the Python type, n a number, d the numbers of a   *)
(* list, tuple or array (row-major), sh the shape of an array, s the       *)
(* strings of a str (one) or of a list of str.                             *)
(***************************************************************************)
PyVal(t, n, d, sh, s) == [t |-> t, n |-> n, d |-> d, sh |-> sh, s |-> s]

\* Marks a keyword that the caller does not pass (never a value of the program).
Missing == PyVal("missing", 0, <<>>, <<>>, <<>>)

None == PyVal("None", 0, <<>>, <<>>, <<>>)

Num(n) == PyVal("num", n, <<>>, <<>>, <<>>)

Bool(b) == PyVal("bool", IF b THEN 1 ELSE 0, <<>>, <<>>, <<>>)

Str(x) == PyVal("str", 0, <<>>, <<>>, <<x>>)

List(d) == PyVal("list", 0, d, <<>>, <<>>)

StrList(s) == PyVal("list", 0, <<>>, <<>>, s)

Tuple(d) == PyVal("tuple", 0, d, <<>>, <<>>)

NdArray(sh, d) == PyVal("ndarray", 0, d, sh, <<>>)

\* What a failed validator yields in place of a value.
Invalid == PyVal("error", 0, <<>>, <<>>, <<>>)

ndim(v) == Len(v.sh)

EmptyMap == [k \in {} |-> None]

\* The keywords actually passed: a call's keyword mapping without the unpassed ones.
Passed(r) == [k \in {j \in DOMAIN r : r[j] # Missing} |-> r[k]]

(***************************************************************************)
(* How a call ends.                                                        *)
(***************************************************************************)
NoCall == [outcome |-> "none", exc |-> "", value |-> None]

Returned(v) == [outcome |-> "returned", exc |-> "", value |-> v]

Raised(e) == [outcome |-> "raised", exc |-> e, value |-> None]

\* sys.exit(): SystemExit unwinds the call, nothing is returned.
SysExit == [outcome |-> "exit", exc |-> "SystemExit", value |-> None]

(***************************************************************************)
(* pydantic: the validators of the annotated field types.                  *)
(***************************************************************************)
ToStrs(d) == [i \in 1..Len(d) |-> ToString(d[i])]

str_validator(v) ==
    CASE v.t = "str" -> v
      [] v.t = "num" -> Str(ToString(v.n))
      [] v.t = "bool" -> Str(IF v.n = 1 THEN "True" ELSE "False")
      [] OTHER -> Invalid

\* float(v): numbers, and arrays of one element; the strings of this model are not numerals.
float_validator(v) ==
    CASE v.t \in {"num", "bool"} -> Num(v.n)
      [] v.t = "ndarray" /\ Len(v.d) = 1 -> Num(v.d[1])
      [] OTHER -> Invalid

int_validator(v) == float_validator(v)

list_validator(v) ==
    CASE v.t = "list" -> v
      [] v.t = "tuple" -> PyVal("list", 0, v.d, <<>>, v.s)
      [] OTHER -> Invalid

tuple_validator(v) ==
    CASE v.t = "tuple" -> v
      [] v.t = "list" -> PyVal("tuple", 0, v.d, <<>>, v.s)
      [] OTHER -> Invalid

\* List[str]: a sequence whose items each pass str_validator.
list_of_str_validator(v) ==
    IF v.t \in {"list", "tuple"}
    THEN StrList(ToStrs(v.d) \o v.s)
    ELSE Invalid

\* Image.validate
Image_validate_no_ndim(v) ==
    IF v.t # "ndarray" THEN Invalid ELSE v

Image_validate(v) ==
    IF v.t # "ndarray"
    THEN Invalid
    ELSE IF ~(ndim(v) = 2) THEN Invalid ELSE v

find_validators(type, v) ==
    CASE type = "str" -> str_validator(v)
      [] type = "float" -> float_validator(v)
      [] type = "int" -> int_validator(v)
      [] type = "list" -> list_validator(v)
      [] type = "tuple" -> tuple_validator(v)
      [] type = "List[str]" -> list_of_str_validator(v)
      [] type = "Image" -> Image_validate(v)

(***************************************************************************)
(* The declared fields of the model classes.                               *)
(***************************************************************************)
ModelField(type, required, allow_none, default, alias) ==
    [type |-> type, required |-> required, allow_none |-> allow_none,
     default |-> default, alias |-> alias]

\* Variable.Config
allow_population_by_field_name == TRUE

\* Variable[Value]
VariableFields(Value) ==
    [name |-> ModelField("str", TRUE, FALSE, None, "name"),
     value |-> ModelField(Value, FALSE, TRUE, None, "value"),
     precision |-> ModelField("int", FALSE, TRUE, Num(8), "precision")]

\* InputVariable[Value] with an optional default (a variant)
InputVariableFields_optional_default(Value) ==
    VariableFields(Value) @@
    [default |-> ModelField(Value, FALSE, TRUE, None, "default"),
     value_range |-> ModelField("list", TRUE, FALSE, None, "range")]

\* InputVariable[Value]
InputVariableFields(Value) ==
    VariableFields(Value) @@
    [default |-> ModelField(Value, TRUE, FALSE, None, "default"),
     value_range |-> ModelField("list", TRUE, FALSE, None, "range")]

\* OutputVariable[Value]
OutputVariableFields(Value) ==
    VariableFields(Value) @@
    [default |-> ModelField(Value, FALSE, TRUE, None, "default"),
     value_range |-> ModelField("list", FALSE, TRUE, None, "range")]

\* ImageVariable(BaseModel)
ImageVariableFields ==
    [variable_type |-> ModelField("str", FALSE, FALSE, Str("image"), "variable_type"),
     axis_labels |-> ModelField("List[str]", TRUE, FALSE, None, "axis_labels"),
     shape |-> ModelField("tuple", TRUE, FALSE, None, "shape"),
     axis_units |-> ModelField("List[str]", FALSE, TRUE, None, "axis_units"),
     x_min |-> ModelField("float", FALSE, TRUE, None, "x_min"),
     x_max |-> ModelField("float", FALSE, TRUE, None, "x_max"),
     y_min |-> ModelField("float", FALSE, TRUE, None, "y_min"),
     y_max |-> ModelField("float", FALSE, TRUE, None, "y_max"),
     x_min_variable |-> ModelField("str", FALSE, TRUE, None, "x_min_variable"),
     x_max_variable |-> ModelField("str", FALSE, TRUE, None, "x_max_variable"),
     y_min_variable |-> ModelField("str", FALSE, TRUE, None, "y_min_variable"),
     y_max_variable |-> ModelField("str", FALSE, TRUE, None, "y_max_variable")]

\* ScalarVariable: a plain class, its annotations are no pydantic fields.
ScalarVariableAnnotations ==
    [variable_type |-> ModelField("str", FALSE, FALSE, Str("scalar"), "variable_type"),
     units |-> ModelField("str", FALSE, TRUE, None, "units"),
     parent_variable |-> ModelField("str", FALSE, TRUE, None, "parent_variable")]

\* Only a base that derives from BaseModel hands its fields to a subclass.
IsBaseModel(base) == base # "ScalarVariable"

InheritedFields(base, annotations) ==
    IF IsBaseModel(base) THEN annotations ELSE EmptyMap

Classes ==
    {"ScalarInputVariable", "ScalarOutputVariable",
     "ImageInputVariable", "ImageOutputVariable"}

ImageClasses == {"ImageInputVariable", "ImageOutputVariable"}

InputClasses == {"ScalarInputVariable", "ImageInputVariable"}

\* The __fields__ of the four concrete classes, from their bases.
ClassFields(c) ==
    CASE c = "ScalarInputVariable" ->
            InheritedFields("InputVariable", InputVariableFields("float"))
            @@ InheritedFields("ScalarVariable", ScalarVariableAnnotations)
      [] c = "ScalarOutputVariable" ->
            InheritedFields("OutputVariable", OutputVariableFields("float"))
            @@ InheritedFields("ScalarVariable", ScalarVariableAnnotations)
      [] c = "ImageInputVariable" ->
            InheritedFields("InputVariable", InputVariableFields("Image"))
            @@ InheritedFields("ImageVariable", ImageVariableFields)
      [] c = "ImageOutputVariable" ->
            InheritedFields("OutputVariable", OutputVariableFields("Image"))
            @@ InheritedFields("ImageVariable", ImageVariableFields)

(***************************************************************************)
(* pydantic: validation of a constructor call against the fields.          *)
(***************************************************************************)
validate_field(field, v) ==
    IF v = None
    THEN IF field.allow_none THEN None ELSE Invalid
    ELSE find_validators(field.type, v)

\* The keyword a field is read from: its alias, else (Config) its name.
\* A field's name passed beside its alias is an extra keyword, and ignored.
field_input(field, name, kw) ==
    IF field.alias \in DOMAIN kw THEN kw[field.alias]
    ELSE IF allow_population_by_field_name /\ name \in DOMAIN kw THEN kw[name]
    ELSE Missing

field_value(field, name, kw) ==
    LET v == field_input(field, name, kw)
    IN  IF v = Missing
        THEN IF field.required THEN Invalid ELSE field.default
        ELSE validate_field(field, v)

\* cls(**kw): an object with every field set, or ValidationError.
Construct(c, kw) ==
    LET fields == ClassFields(c)
        values == [n \in DOMAIN fields |-> field_value(fields[n], n, kw)]
    IN  IF \E n \in DOMAIN fields : values[n] = Invalid
        THEN Raised("ValidationError")
        ELSE Returned([cls |-> c, fields |-> values])

\* PropertyBaseModel.get_properties: no class here declares a property.
get_properties(c) == {}

\* PropertyBaseModel.dict(): the fields, updated with the properties.
dict(obj) ==
    LET props == get_properties(obj.cls)
    IN  [p \in props |-> None] @@ obj.fields

(***************************************************************************)
(* Construction of the four concrete variable types.                       *)
(***************************************************************************)
Arr1 == NdArray(<<2>>, <<1, 2>>)

Arr22 == NdArray(<<2, 2>>, <<1, 2, 3, 4>>)

Arr3 == NdArray(<<1, 1, 2>>, <<1, 2>>)

\* The values tried for `value` and `default`.
ValueSet == {Missing, None, Num(1), Arr1, Arr22, Arr3}

\* The constructor calls tried: each keyword unpassed or one of a few values.
KwargsSet ==
    {Passed(r) : r \in
        [name : {Missing, Str("x")},
         value : ValueSet,
         default : ValueSet,
         precision : {Missing, Num(4)},
         range : {Missing, List(<<0, 5>>)},
         value_range : {Missing, List(<<0, 5>>), List(<<1, 2>>)},
         units : {Missing, Str("m")},
         shape : {Missing, Tuple(<<2, 2>>), Tuple(<<1, 2>>)},
         axis_labels : {Missing, StrList(<<"a", "b">>)},
         x_min : {Missing, Num(0)}]}

\* The variables of the operations a specification does not exercise.
IdleConstruct == cls = "" /\ kwargs = EmptyMap /\ attribs = EmptyMap

IdlePersist ==
    /\ variable_file = [exists |-> FALSE, data |-> <<>>] /\ saved = <<>>
    /\ input_variables = EmptyMap /\ output_variables = EmptyMap

IdleConfig == config = None /\ model_class = None /\ load_model = FALSE

InitVariables ==
    /\ pc = "call"
    /\ ret = NoCall
    /\ cls \in Classes
    /\ kwargs \in KwargsSet
    /\ attribs = EmptyMap
    /\ IdlePersist
    /\ IdleConfig

New(c) ==
    /\ pc = "call"
    /\ cls = c
    /\ ret' = Construct(c, kwargs)
    /\ pc' = "done"
    /\ UNCHANGED <<constructVars, persistVars, configVars>>

NewScalarInputVariable == New("ScalarInputVariable")

NewScalarOutputVariable == New("ScalarOutputVariable")

NewImageInputVariable == New("ImageInputVariable")

NewImageOutputVariable == New("ImageOutputVariable")

\* obj.dict() on the object just constructed
Dict ==
    /\ pc = "done"
    /\ ret.outcome = "returned"
    /\ attribs' = dict(ret.value)
    /\ pc' = "dict"
    /\ UNCHANGED <<cls, kwargs, ret, persistVars, configVars>>

NextVariables ==
    \/ NewScalarInputVariable
    \/ NewScalarOutputVariable
    \/ NewImageInputVariable
    \/ NewImageOutputVariable
    \/ Dict

SpecVariables == InitVariables /\ [][NextVariables]_vars

(***************************************************************************)
(* Properties of construction (checked under SpecVariables).               *)
(***************************************************************************)
Called == pc # "call"

\* A keyword's value has the type its field is annotated with.
Conforms(c, k, v) ==
    CASE k \in {"name", "units"} -> v.t = "str"
      [] k \in {"value", "default"} ->
            IF c \in ImageClasses THEN v.t = "ndarray" /\ ndim(v) = 2 ELSE v.t = "num"
      [] k \in {"precision", "x_min"} -> v.t = "num"
      [] k \in {"range", "value_range"} -> v.t = "list"
      [] k = "shape" -> v.t = "tuple"
      [] k = "axis_labels" -> v.t = "list" /\ v.d = <<>>
      [] OTHER -> TRUE

TypeConforming(c, kw) == \A k \in DOMAIN kw : Conforms(c, k, kw[k])

DoubleRange(kw) == "range" \in DOMAIN kw /\ "value_range" \in DOMAIN kw

\* A field is supplied: its keyword is passed, value_range under either keyword.
Supplied(kw, f) == f \in DOMAIN kw \/ (f = "value_range" /\ "range" \in DOMAIN kw)

RequiredByType(c) ==
    {"name"}
    \cup (IF c \in InputClasses THEN {"default", "value_range"} ELSE {})
    \cup (IF c \in ImageClasses THEN {"shape", "axis_labels"} ELSE {})

RaisedValidationError == ret.outcome = "raised" /\ ret.exc = "ValidationError"

\* C3: with type-conforming values, construction succeeds exactly when every
\* required field is supplied (name; default and value_range for the input types;
\* shape and axis_labels for the image types), and fails with ValidationError
\* otherwise; value, default and value_range are not required of an output type.
C3_RequiredFields ==
    (Called /\ TypeConforming(cls, kwargs)) =>
        /\ (ret.outcome = "returned") <=>
                (\A f \in RequiredByType(cls) : Supplied(kwargs, f))
        /\ (ret.outcome # "returned") => RaisedValidationError

C3_Witness ==
    /\ Called
    /\ TypeConforming(cls, kwargs)
    /\ cls = "ImageInputVariable"
    /\ \A f \in RequiredByType(cls) \ {"default"} : Supplied(kwargs, f)
    /\ ~Supplied(kwargs, "default")
    /\ RaisedValidationError

ImageArgs(kw) == {kw[k] : k \in {"value", "default"} \cap DOMAIN kw}

\* C4 as stated: an image type given a value or default that is not a
\* 2-dimensional numpy array (None included: it is no numpy array) fails with
\* ValidationError.
C4_Original ==
    (/\ Called
     /\ cls \in ImageClasses
     /\ \E v \in ImageArgs(kwargs) : ~(v.t = "ndarray" /\ ndim(v) = 2))
        => RaisedValidationError

\* C4 amended: an image type given a value or default that is a numpy array of
\* a dimension other than 2, or that is neither None nor a numpy array, fails
\* with ValidationError and returns no object.
C4_ImageDim ==
    (/\ Called
     /\ cls \in ImageClasses
     /\ \E v \in ImageArgs(kwargs) : v # None /\ ~(v.t = "ndarray" /\ ndim(v) = 2))
        => RaisedValidationError

C4_Witness ==
    /\ Called
    /\ cls = "ImageOutputVariable"
    /\ \A f \in RequiredByType(cls) : Supplied(kwargs, f)
    /\ "value" \in DOMAIN kwargs /\ kwargs["value"] = Arr3
    /\ "default" \notin DOMAIN kwargs
    /\ RaisedValidationError

ScalarDeclared ==
    {"name", "value", "precision", "default", "value_range", "units", "parent_variable"}

ImageDeclared ==
    {"name", "value", "precision", "default", "value_range",
     "shape", "axis_labels", "axis_units", "x_min", "x_max", "y_min", "y_max",
     "x_min_variable", "x_max_variable", "y_min_variable", "y_max_variable"}

DeclaredByType(c) == IF c \in ImageClasses THEN ImageDeclared ELSE ScalarDeclared

SuppliedOrDefault(kw, f) ==
    CASE f \in DOMAIN kw -> kw[f]
      [] f = "value_range" /\ "range" \in DOMAIN kw -> kw["range"]
      [] f = "precision" -> Num(8)
      [] OTHER -> None

\* C5 as stated: the dict() of an object built from a valid field set holds
\* every field the data model declares for its type, each with the supplied
\* value or else its default (precision 8, otherwise None).
C5_Original ==
    (pc = "dict" /\ TypeConforming(cls, kwargs) /\ ~DoubleRange(kwargs)) =>
        \A f \in DeclaredByType(cls) :
            f \in DOMAIN attribs /\ attribs[f] = SuppliedOrDefault(kwargs, f)

RangeAsValueRange(kw) ==
    [k \in (DOMAIN kw \ {"range"}) \cup {"value_range"} |->
        IF k = "value_range" THEN kw["range"] ELSE kw[k]]

\* C6 as stated: `range` alone and `value_range` alone give the same result,
\* and a call passing both with different values is not silently accepted.
C6_Original ==
    Called =>
        /\ ("range" \in DOMAIN kwargs /\ "value_range" \notin DOMAIN kwargs)
                => ret = Construct(cls, RangeAsValueRange(kwargs))
        /\ (DoubleRange(kwargs) /\ kwargs["range"] # kwargs["value_range"])
                => ret.outcome # "returned"

\* C7 as stated: a constructed image variable's array (value or default) has
\* the shape its `shape` field gives.
C7_Original ==
    (Called /\ cls \in ImageClasses /\ ret.outcome = "returned") =>
        \A k \in {"value", "default"} :
            ret.value.fields[k].t = "ndarray"
                => ret.value.fields[k].sh = ret.value.fields["shape"].d

(***************************************************************************)
(* Persistence: save_variables and load_variables on one file.             *)
(***************************************************************************)
\* A path with no file behind it.
NoFile == [exists |-> FALSE, data |-> <<>>]

RECURSIVE SetToSeq(_)
SetToSeq(S) ==
    IF S = {} THEN <<>>
    ELSE LET x == CHOOSE y \in S : TRUE IN <<x>> \o SetToSeq(S \ {x})

\* pickle of one mapping: per item its key, the class (by name) and the field state.
pickle_items(section, mapping) ==
    LET keys == SetToSeq(DOMAIN mapping)
    IN  [i \in 1..Len(keys) |->
            [section |-> section, key |-> keys[i],
             class |-> mapping[keys[i]].cls, state |-> mapping[keys[i]].fields]]

\* pickle.dumps of the dict {"input_variables": ..., "output_variables": ...}
pickle_dumps(variables) ==
    pickle_items("input_variables", variables.input_variables)
    \o pickle_items("output_variables", variables.output_variables)

unpickle_section(frame, section) ==
    LET idx == {i \in 1..Len(frame) : frame[i].section = section}
    IN  [k \in {frame[i].key : i \in idx} |->
            LET i == CHOOSE j \in idx : frame[j].key = k
            IN  [cls |-> frame[i].class, fields |-> frame[i].state]]

\* pickle.load: the first pickled object of the stream.
pickle_load(data) ==
    [input_variables |-> unpickle_section(data[1], "input_variables"),
     output_variables |-> unpickle_section(data[1], "output_variables")]

\* open(variable_file, "ab"): a variant that appends instead of truncating.
open_ab_write(file, frame) == [exists |-> TRUE, data |-> file.data \o <<frame>>]

\* open(variable_file, "wb"); pickle.dump(variables, f)
open_wb_write(file, frame) == [exists |-> TRUE, data |-> <<frame>>]

\* variable_names.count(var)
count(inputs, outputs, var) ==
    Cardinality({k \in DOMAIN inputs : inputs[k].fields.name = var})
    + Cardinality({k \in DOMAIN outputs : outputs[k].fields.name = var})

\* A variant that looks for a repeated name among the inputs only.
duplicate_names_inputs_only(inputs, outputs) ==
    {var \in {inputs[k].fields.name : k \in DOMAIN inputs} :
        count(inputs, EmptyMap, var) > 1}

\* The names save_variables finds more than once across inputs and outputs.
duplicate_names(inputs, outputs) ==
    {var \in {inputs[k].fields.name : k \in DOMAIN inputs}
            \cup {outputs[k].fields.name : k \in DOMAIN outputs} :
        count(inputs, outputs, var) > 1}

\* save_variables(input_variables, output_variables, variable_file):
\* the call's outcome and the file afterwards.
save_variables(inputs, outputs, file) ==
    IF duplicate_names(inputs, outputs) # {}
    THEN [ret |-> Raised("ValueError"), file |-> file]
    ELSE [ret |-> Returned(None),
          file |-> open_wb_write(file,
                      pickle_dumps([input_variables |-> inputs,
                                    output_variables |-> outputs]))]

\* load_variables(variable_file)
load_variables(file) ==
    IF ~file.exists
    THEN Raised("FileNotFoundError")
    ELSE LET variables == pickle_load(file.data)
         IN  Returned(<<variables.input_variables, variables.output_variables>>)

\* Valid variables to save, each built by its constructor.
Built(c, kw) == Construct(c, Passed(kw)).value

InputPool ==
    {Built("ScalarInputVariable",
           [name |-> Str("a"), default |-> Num(1), range |-> List(<<0, 5>>)]),
     Built("ImageInputVariable",
           [name |-> Str("b"), default |-> Arr22, range |-> List(<<0, 5>>),
            shape |-> Tuple(<<2, 2>>), axis_labels |-> StrList(<<"x", "y">>)])}

OutputPool ==
    {Built("ScalarOutputVariable", [name |-> Str("a"), value |-> Num(2)]),
     Built("ImageOutputVariable",
           [name |-> Str("c"), shape |-> Tuple(<<2, 2>>),
            axis_labels |-> StrList(<<"x", "y">>)])}

\* The keys a mapping may store its variables under.
Keys == {"a", "k"}

Mappings(pool) == UNION {[K -> pool] : K \in SUBSET Keys}

Init ==
    /\ pc = "idle"
    /\ ret = NoCall
    /\ IdleConstruct
    /\ IdlePersist
    /\ IdleConfig

SaveVariables ==
    \E inputs \in Mappings(InputPool), outputs \in Mappings(OutputPool) :
        LET r == save_variables(inputs, outputs, variable_file)
        IN  /\ input_variables' = inputs
            /\ output_variables' = outputs
            /\ variable_file' = r.file
            /\ ret' = r.ret
            /\ saved' = IF r.ret.outcome = "returned" THEN <<inputs, outputs>> ELSE saved
            /\ pc' = "saved"
            /\ UNCHANGED <<constructVars, configVars>>

LoadVariables ==
    /\ ret' = load_variables(variable_file)
    /\ pc' = "loaded"
    /\ UNCHANGED <<constructVars, persistVars, configVars>>

Next == SaveVariables \/ LoadVariables

Spec == Init /\ [][Next]_vars

NameTwice(inputs, outputs) ==
    LET entries == ({"in"} \X DOMAIN inputs) \cup ({"out"} \X DOMAIN outputs)
        nameOf(e) == IF e[1] = "in" THEN inputs[e[2]].fields.name
                     ELSE outputs[e[2]].fields.name
    IN  \E e1, e2 \in entries : e1 # e2 /\ nameOf(e1) = nameOf(e2)

FileNamesDistinct ==
    variable_file.exists =>
        LET v == pickle_load(variable_file.data)
        IN  ~NameTwice(v.input_variables, v.output_variables)

\* C2: a save whose arguments carry a name twice raises, and leaves the file
\* as it was (absent, or with its previous content); so the file is always
\* either absent or holds variables of pairwise distinct names.
C2_DuplicateNames ==
    /\ []((pc = "saved" /\ NameTwice(input_variables, output_variables))
            => ret = Raised("ValueError"))
    /\ [][(pc' = "saved" /\ NameTwice(input_variables', output_variables'))
            => variable_file' = variable_file]_vars
    /\ []FileNamesDistinct

C2_Witness ==
    /\ pc = "saved"
    /\ NameTwice(input_variables, output_variables)
    /\ DOMAIN input_variables = Keys
    /\ ret = Raised("ValueError")
    /\ variable_file.exists

(***************************************************************************)
(* Configuration loading: the variable sections.                           *)
(*                                                                         *)
(* A parsed document is a record: is_dict says whether yaml.safe_load gave *)
(* a mapping; has_inputs, has_outputs, has_model whether the section is in *)
(* it.  A variable section is the sequence, in document order, of its      *)
(* [key, rec] items, rec being the per-variable mapping.  A str holds its  *)
(* dot-separated components, so "pkg.Model" is <<"pkg", "Model">>.         *)
(***************************************************************************)
DottedStr(components) == PyVal("str", 0, <<>>, <<>>, components)

\* bool(v)
truthy(v) ==
    CASE v.t \in {"None", "missing"} -> FALSE
      [] v.t \in {"num", "bool"} -> v.n # 0
      [] v.t \in {"list", "tuple"} -> Len(v.d) + Len(v.s) > 0
      [] OTHER -> TRUE

\* dict.get(key): None when the key is absent
get(rec, key) == IF key \in DOMAIN rec THEN rec[key] ELSE None

\* rec[key] = v
set_item(rec, key, v) == [k \in DOMAIN rec \cup {key} |-> IF k = key THEN v ELSE rec[k]]

\* The one array file on disk, "img.npy", and its content.
ImgNpyPath == DottedStr(<<"img", "npy">>)

ImgNpy == NdArray(<<2, 2>>, <<3, 1, 4, 2>>)

\* np.load(path)
np_load(path) ==
    IF path = ImgNpyPath THEN Returned(ImgNpy) ELSE Raised("FileNotFoundError")

np_amin(a) == CHOOSE m \in {a.d[i] : i \in 1..Len(a.d)} : \A i \in 1..Len(a.d) : m <= a.d[i]

np_amax(a) == CHOOSE m \in {a.d[i] : i \in 1..Len(a.d)} : \A i \in 1..Len(a.d) : m >= a.d[i]

\* The Python list [a, b] of two numbers or of two strs.
list2(a, b) ==
    IF a.t \in {"num", "bool"} /\ b.t \in {"num", "bool"}
    THEN List(<<a.n, b.n>>)
    ELSE StrList(a.s \o b.s)

\* A variant that keeps the lower end of the record's range.
scalar_constant_range_keep_low(rec) ==
    IF "range" \in DOMAIN rec /\ Len(rec["range"].d) > 0
    THEN list2(Num(rec["range"].d[1]), rec["default"])
    ELSE list2(rec["default"], rec["default"])

\* [variable_config["default"], variable_config["default"]]
scalar_constant_range(rec) == list2(rec["default"], rec["default"])

\* [np.amin(variable_config["default"]), np.amax(variable_config["default"])]
image_constant_range(rec) == List(<<np_amin(rec["default"]), np_amax(rec["default"])>>)

\* variable_config["axis_labels"] = [variable_config["x_label"], variable_config["y_label"]]
with_axis_labels(rec) ==
    set_item(rec, "axis_labels", StrList(rec["x_label"].s \o rec["y_label"].s))

\* variables_from_yaml: one item of input_variables
variables_from_yaml_input(rec) ==
    IF "type" \notin DOMAIN rec THEN Raised("KeyError")
    ELSE IF rec["type"] = Str("scalar") THEN
        IF truthy(get(rec, "is_constant"))
        THEN IF "default" \notin DOMAIN rec THEN Raised("KeyError")
             ELSE Construct("ScalarInputVariable",
                            set_item(rec, "range", scalar_constant_range(rec)))
        ELSE Construct("ScalarInputVariable", rec)
    ELSE IF rec["type"] = Str("image") THEN
        IF "default" \notin DOMAIN rec THEN Raised("KeyError")
        ELSE LET loaded == np_load(rec["default"])
             IN  IF loaded.outcome # "returned" THEN loaded
                 ELSE IF {"x_label", "y_label"} \ DOMAIN rec # {} THEN Raised("KeyError")
                 ELSE LET rec2 == with_axis_labels(set_item(rec, "default", loaded.value))
                      IN  IF truthy(get(rec2, "is_constant"))
                          THEN Construct("ImageInputVariable",
                                         set_item(rec2, "range", image_constant_range(rec2)))
                          ELSE Construct("ImageInputVariable", rec2)
    ELSE SysExit

\* A variant that builds a scalar output with the input class.
variables_from_yaml_output_as_input(rec) ==
    IF "type" \notin DOMAIN rec THEN Raised("KeyError")
    ELSE IF rec["type"] = Str("scalar") THEN Construct("ScalarInputVariable", rec)
    ELSE IF rec["type"] = Str("image") THEN
        IF {"x_label", "y_label"} \ DOMAIN rec # {} THEN Raised("KeyError")
        ELSE Construct("ImageOutputVariable", with_axis_labels(rec))
    ELSE SysExit

\* variables_from_yaml: one item of output_variables
variables_from_yaml_output(rec) ==
    IF "type" \notin DOMAIN rec THEN Raised("KeyError")
    ELSE IF rec["type"] = Str("scalar") THEN Construct("ScalarOutputVariable", rec)
    ELSE IF rec["type"] = Str("image") THEN
        IF {"x_label", "y_label"} \ DOMAIN rec # {} THEN Raised("KeyError")
        ELSE Construct("ImageOutputVariable", with_axis_labels(rec))
    ELSE SysExit

\* model_from_yaml: one item of input_variables (no is_constant handling)
model_from_yaml_input(rec) ==
    IF "type" \notin DOMAIN rec THEN Raised("KeyError")
    ELSE IF rec["type"] = Str("scalar") THEN Construct("ScalarInputVariable", rec)
    ELSE IF rec["type"] = Str("image") THEN
        IF "default" \notin DOMAIN rec THEN Raised("KeyError")
        ELSE LET loaded == np_load(rec["default"])
             IN  IF loaded.outcome # "returned" THEN loaded
                 ELSE IF {"x_label", "y_label"} \ DOMAIN rec # {} THEN Raised("KeyError")
                 ELSE Construct("ImageInputVariable",
                                with_axis_labels(set_item(rec, "default", loaded.value)))
    ELSE SysExit

\* model_from_yaml: one item of output_variables
model_from_yaml_output(rec) ==
    IF "type" \notin DOMAIN rec THEN Raised("KeyError")
    ELSE IF rec["type"] = Str("scalar") THEN Construct("ScalarOutputVariable", rec)
    ELSE IF rec["type"] = Str("image") THEN
        IF {"x_label", "y_label"} \ DOMAIN rec # {} THEN Raised("KeyError")
        ELSE Construct("ImageOutputVariable", with_axis_labels(rec))
    ELSE SysExit

\* `for variable in config[section]`: the mapping key -> variable, or how the
\* first item that does not build ends the call.
build_section(section, build(_)) ==
    LET built == [i \in 1..Len(section) |-> build(section[i].rec)]
        failed == {i \in 1..Len(section) : built[i].outcome # "returned"}
    IN  IF failed # {}
        THEN built[CHOOSE i \in failed : \A j \in failed : i <= j]
        ELSE Returned([k \in {section[i].key : i \in 1..Len(section)} |->
                        built[CHOOSE i \in 1..Len(section) : section[i].key = k].value])

\* variables_from_yaml: the output part; without the section the mapping stays empty.
variables_from_yaml_outputs(cfg) ==
    IF cfg.has_outputs
    THEN build_section(cfg.outputs, variables_from_yaml_output)
    ELSE Returned(EmptyMap)

\* variables_from_yaml(config_file)
variables_from_yaml(cfg) ==
    IF ~cfg.is_dict THEN SysExit
    ELSE IF ~cfg.has_inputs THEN SysExit
    ELSE LET inputs == build_section(cfg.inputs, variables_from_yaml_input)
         IN  IF inputs.outcome # "returned" THEN inputs
             ELSE LET outputs == variables_from_yaml_outputs(cfg)
                  IN  IF outputs.outcome # "returned" THEN outputs
                      ELSE Returned(<<inputs.value, outputs.value>>)

(***************************************************************************)
(* Configuration loading: the model section.                               *)
(*                                                                         *)
(* The model section is a record: has_requirements, has_model_class,       *)
(* has_kwargs, has_custom_layers say which keys it holds; requirements is  *)
(* the sequence of [name, version] items, custom_layers the sequence of    *)
(* [layer, path] items, kwargs the other keyword arguments.                *)
(***************************************************************************)
Module(name) == PyVal("module", 0, <<>>, <<>>, <<name>>)

Class(path) == PyVal("class", 0, <<>>, <<>>, path)

DictVal(n) == PyVal("dict", n, <<>>, <<>>, <<>>)

\* The importable modules of the running environment, with their attributes.
Modules ==
    [pkg |-> [Model |-> Class(<<"pkg", "Model">>),
              Strict |-> Class(<<"pkg", "Strict">>),
              Layer |-> Class(<<"pkg", "Layer">>),
              nothing |-> None,
              version |-> DottedStr(<<"1", "0">>)]]

\* __import__(name)
import(name) ==
    IF name \in DOMAIN Modules THEN Returned(Module(name)) ELSE Raised("ModuleNotFoundError")

\* getattr(obj, comp): the modules have attributes, the other objects here none.
getattr(obj, comp) ==
    IF obj.t = "module" /\ comp \in DOMAIN Modules[obj.s[1]]
    THEN Returned(Modules[obj.s[1]][comp])
    ELSE Raised("AttributeError")

RECURSIVE getattr_chain(_, _)
getattr_chain(mod, comps) ==
    IF comps = <<>> THEN Returned(mod)
    ELSE LET next == getattr(mod, Head(comps))
         IN  IF next.outcome # "returned" THEN next
             ELSE getattr_chain(next.value, Tail(comps))

\* Variant of locate: the components after the module are not looked up.
locate_unchecked(name) ==
    IF name.t # "str" THEN Raised("AttributeError")
    ELSE LET components == name.s
             mod == import(components[1])
         IN  IF mod.outcome # "returned" THEN mod
             ELSE IF Len(components) = 1 THEN mod
             ELSE Returned(Class(components))

\* locate(name)
locate(name) ==
    IF name.t # "str" THEN Raised("AttributeError")
    ELSE LET components == name.s
             mod == import(components[1])
         IN  IF mod.outcome # "returned" THEN mod
             ELSE getattr_chain(mod.value, Tail(components))

\* model_class(**model_kwargs): pkg.Model and pkg.Layer take any keywords,
\* pkg.Strict only the two variable mappings; anything else is not callable.
call_model_class(class, model_kwargs) ==
    IF class.t # "class" THEN Raised("TypeError")
    ELSE IF class = Class(<<"pkg", "Strict">>)
            /\ DOMAIN model_kwargs \ {"input_variables", "output_variables"} # {}
         THEN Raised("TypeError")
         ELSE Returned([class |-> class, kwargs |-> model_kwargs])

\* The requirements loop: "ok", or how it ends the call.
RECURSIVE check_requirements(_)
check_requirements(requirements) ==
    IF requirements = <<>> THEN Returned(None)
    ELSE LET req == Head(requirements)
             module == import(req.name)
         IN  IF module.outcome # "returned" THEN module
             ELSE IF req.version.t = "dict"
                  THEN LET version == getattr(module.value, "version")
                       IN  IF version.outcome # "returned" THEN version
                           ELSE IF version.value # req.version THEN SysExit
                           ELSE check_requirements(Tail(requirements))
                  ELSE check_requirements(Tail(requirements))

\* The custom_layers loop: the mapping layer -> resolved object, or how it ends the call.
resolve_custom_layers(custom_layers) ==
    LET located == [i \in 1..Len(custom_layers) |-> locate(custom_layers[i].path)]
        stop(i) == located[i].outcome # "returned" \/ located[i].value = None
        failed == {i \in 1..Len(custom_layers) : stop(i)}
    IN  IF failed # {}
        THEN LET i == CHOOSE j \in failed : \A k \in failed : j <= k
             IN  IF located[i].outcome # "returned" THEN located[i] ELSE SysExit
        ELSE Returned([l \in {custom_layers[i].layer : i \in 1..Len(custom_layers)} |->
                        located[CHOOSE i \in 1..Len(custom_layers) :
                                    custom_layers[i].layer = l].value])

\* model_kwargs.update(other)
update(model_kwargs, other) ==
    [k \in DOMAIN model_kwargs \cup DOMAIN other |->
        IF k \in DOMAIN other THEN other[k] ELSE model_kwargs[k]]

\* model_from_yaml: the `if "model" in config:` block; the class and the keywords.
model_section(model, model_kwargs) ==
    LET reqs == IF model.has_requirements
                THEN check_requirements(model.requirements)
                ELSE Returned(None)
    IN  IF reqs.outcome # "returned" THEN reqs
        ELSE IF ~model.has_model_class THEN Raised("KeyError")
        ELSE LET class == locate(model.model_class)
             IN  IF class.outcome # "returned" THEN class
                 ELSE IF ~model.has_kwargs
                      THEN Returned([model_class |-> class.value,
                                     model_kwargs |-> model_kwargs])
                 ELSE LET layers == IF model.has_custom_layers
                                    THEN resolve_custom_layers(model.custom_layers)
                                    ELSE Returned(EmptyMap)
                          with_layers == IF model.has_custom_layers
                                         THEN set_item(model_kwargs, "custom_layers",
                                                       layers.value)
                                         ELSE model_kwargs
                      IN  IF layers.outcome # "returned" THEN layers
                          ELSE Returned([model_class |-> class.value,
                                         model_kwargs |-> update(with_layers, model.kwargs)])

\* model_from_yaml(config_file, model_class, model_kwargs, load_model)
model_from_yaml(cfg, class_arg, load) ==
    IF ~cfg.is_dict THEN SysExit
    ELSE IF ~cfg.has_inputs THEN SysExit
    ELSE LET inputs == build_section(cfg.inputs, model_from_yaml_input)
    IN  IF inputs.outcome # "returned" THEN inputs
    ELSE IF ~cfg.has_outputs THEN SysExit
    ELSE LET outputs == build_section(cfg.outputs, model_from_yaml_output)
    IN  IF outputs.outcome # "returned" THEN outputs
    ELSE IF class_arg # None /\ cfg.has_model THEN SysExit
    ELSE LET model_kwargs == [input_variables |-> inputs.value,
                              output_variables |-> outputs.value]
             resolved == IF cfg.has_model
                         THEN model_section(cfg.model, model_kwargs)
                         ELSE Returned([model_class |-> class_arg,
                                        model_kwargs |-> model_kwargs])
    IN  IF resolved.outcome # "returned" THEN resolved
    ELSE IF resolved.value.model_class = None THEN SysExit
    ELSE IF load
         THEN LET model == call_model_class(resolved.value.model_class,
                                            resolved.value.model_kwargs)
              IN  IF model.outcome # "returned" THEN SysExit ELSE model
         ELSE Returned(<<resolved.value.model_class, resolved.value.model_kwargs>>)

(***************************************************************************)
(* The documents tried, and the two entry points applied to them.          *)
(***************************************************************************)
\* The most items a variable section holds.
MaxVars == 2

InputKeys == <<"x", "w", "u", "t">>

OutputKeys == <<"y", "z", "v", "s">>

ScalarInputRecords(key) ==
    {Passed(r) : r \in
        [type : {Str("scalar")},
         name : {Missing, Str(key)},
         default : {Num(1)},
         range : {Missing, List(<<0, 5>>)},
         is_constant : {Missing, Bool(TRUE), Bool(FALSE)}]}

ImageInputRecords(key) ==
    {Passed(r) : r \in
        [type : {Str("image")},
         name : {Str(key)},
         default : {ImgNpyPath},
         range : {Missing, List(<<0, 5>>)},
         is_constant : {Missing, Bool(TRUE)},
         shape : {List(<<2, 2>>)},
         x_label : {Str("col")},
         y_label : {Str("row")}]}

UnknownTypeRecord == [type |-> Str("vector")]

OutputRecords(key) ==
    {[type |-> Str("scalar"), name |-> Str(key)],
     [type |-> Str("scalar")],
     [type |-> Str("image"), name |-> Str(key), shape |-> List(<<2, 2>>),
      x_label |-> Str("col"), y_label |-> Str("row")],
     UnknownTypeRecord}

\* The first item of a section is any record, a later one a plain or an unknown one.
InputRecordsAt(i) ==
    IF i = 1
    THEN ScalarInputRecords(InputKeys[i]) \cup ImageInputRecords(InputKeys[i])
            \cup {UnknownTypeRecord}
    ELSE {[type |-> Str("scalar"), name |-> Str(InputKeys[i]), default |-> Num(2),
           range |-> List(<<0, 5>>)],
          UnknownTypeRecord}

OutputRecordsAt(i) ==
    IF i = 1
    THEN OutputRecords(OutputKeys[i])
    ELSE {[type |-> Str("scalar"), name |-> Str(OutputKeys[i])], UnknownTypeRecord}

RECURSIVE InputSectionsOf(_)
InputSectionsOf(n) ==
    IF n = 0 THEN {<<>>}
    ELSE {Append(sec, [key |-> InputKeys[n], rec |-> r]) :
            sec \in InputSectionsOf(n - 1), r \in InputRecordsAt(n)}

RECURSIVE OutputSectionsOf(_)
OutputSectionsOf(n) ==
    IF n = 0 THEN {<<>>}
    ELSE {Append(sec, [key |-> OutputKeys[n], rec |-> r]) :
            sec \in OutputSectionsOf(n - 1), r \in OutputRecordsAt(n)}

InputSections == UNION {InputSectionsOf(n) : n \in 0..MaxVars}

OutputSections == UNION {OutputSectionsOf(n) : n \in 0..MaxVars}

BaseModelSection ==
    [has_requirements |-> FALSE, requirements |-> <<>>,
     has_model_class |-> TRUE, model_class |-> DottedStr(<<"pkg", "Model">>),
     has_kwargs |-> FALSE, kwargs |-> EmptyMap,
     has_custom_layers |-> FALSE, custom_layers |-> <<>>]

ModelClassPaths ==
    {DottedStr(<<"pkg", "Model">>), DottedStr(<<"pkg", "Strict">>),
     DottedStr(<<"pkg", "Absent">>), DottedStr(<<"nopkg", "Model">>),
     DottedStr(<<"pkg", "nothing">>)}

RequirementLists ==
    {<<[name |-> "pkg", version |-> DottedStr(<<"1", "0">>)]>>,
     <<[name |-> "pkg", version |-> DottedStr(<<"2", "0">>)]>>,
     <<[name |-> "pkg", version |-> None]>>,
     <<[name |-> "pkg", version |-> DictVal(1)]>>,
     <<[name |-> "nopkg", version |-> DottedStr(<<"1", "0">>)]>>}

LayerLists ==
    {<<[layer |-> "L", path |-> DottedStr(<<"pkg", "Layer">>)]>>,
     <<[layer |-> "L", path |-> DottedStr(<<"pkg", "Absent">>)]>>,
     <<[layer |-> "L", path |-> DottedStr(<<"pkg", "nothing">>)]>>}

KwargsMaps ==
    {EmptyMap, [extra |-> Num(1)], [input_variables |-> Num(0)]}

ModelSections ==
    {[BaseModelSection EXCEPT !.model_class = p] : p \in ModelClassPaths}
    \cup {[BaseModelSection EXCEPT !.has_model_class = FALSE, !.model_class = None]}
    \cup {[BaseModelSection EXCEPT !.has_requirements = TRUE, !.requirements = r,
                                   !.model_class = p] :
            r \in RequirementLists,
            p \in {DottedStr(<<"pkg", "Model">>), DottedStr(<<"pkg", "Absent">>)}}
    \cup {[BaseModelSection EXCEPT !.has_kwargs = TRUE, !.kwargs = k] : k \in KwargsMaps}
    \cup {[BaseModelSection EXCEPT !.has_kwargs = TRUE, !.kwargs = k,
                                   !.has_custom_layers = TRUE, !.custom_layers = l] :
            k \in KwargsMaps, l \in LayerLists}

NotADict ==
    [is_dict |-> FALSE, has_inputs |-> FALSE, inputs |-> <<>>,
     has_outputs |-> FALSE, outputs |-> <<>>,
     has_model |-> FALSE, model |-> BaseModelSection]

\* The variable sections tried with every model section.
PlainInputs ==
    {<<>>,
     <<[key |-> "x", rec |-> [type |-> Str("scalar"), name |-> Str("x"),
                               default |-> Num(1), range |-> List(<<0, 5>>)]]>>}

PlainOutputs ==
    {<<>>, <<[key |-> "y", rec |-> [type |-> Str("scalar"), name |-> Str("y")]]>>}

\* Every variable section with no model section or the plain one; the plain
\* variable sections with every model section; and a document that is no mapping.
Configs ==
    {NotADict}
    \cup {[is_dict |-> TRUE, has_inputs |-> hi, inputs |-> i,
           has_outputs |-> ho, outputs |-> o, has_model |-> hm,
           model |-> BaseModelSection] :
            hi \in BOOLEAN, i \in InputSections,
            ho \in BOOLEAN, o \in OutputSections, hm \in BOOLEAN}
    \cup {[is_dict |-> TRUE, has_inputs |-> TRUE, inputs |-> i,
           has_outputs |-> TRUE, outputs |-> o, has_model |-> TRUE, model |-> m] :
            i \in PlainInputs, o \in PlainOutputs, m \in ModelSections}

\* A document is well formed: an absent section has no content.
WellFormed(cfg) ==
    /\ (~cfg.has_inputs => cfg.inputs = <<>>)
    /\ (~cfg.has_outputs => cfg.outputs = <<>>)
    /\ (~cfg.has_model => cfg.model = BaseModelSection)

InitConfig ==
    /\ pc = "call"
    /\ ret = NoCall
    /\ config \in {cfg \in Configs : WellFormed(cfg)}
    /\ model_class \in {None, Class(<<"pkg", "Model">>)}
    /\ load_model \in BOOLEAN
    /\ IdleConstruct
    /\ IdlePersist

VariablesFromYaml ==
    /\ pc = "call"
    /\ ret' = variables_from_yaml(config)
    /\ pc' = "variables_from_yaml"
    /\ UNCHANGED <<constructVars, persistVars, configVars>>

ModelFromYaml ==
    /\ pc = "call"
    /\ ret' = model_from_yaml(config, model_class, load_model)
    /\ pc' = "model_from_yaml"
    /\ UNCHANGED <<constructVars, persistVars, configVars>>

NextConfig == VariablesFromYaml \/ ModelFromYaml

SpecConfig == InitConfig /\ [][NextConfig]_vars

(***************************************************************************)
(* Properties of configuration loading (checked under SpecConfig).         *)
(***************************************************************************)
SeqMin(d) == CHOOSE m \in {d[i] : i \in 1..Len(d)} : \A i \in 1..Len(d) : m <= d[i]

SeqMax(d) == CHOOSE m \in {d[i] : i \in 1..Len(d)} : \A i \in 1..Len(d) : m >= d[i]

Items(section) == {section[i] : i \in 1..Len(section)}

\* C8: variables_from_yaml gives an input whose record has a truthy is_constant
\* the range [default, default] (scalar) or [min(default), max(default)]
\* (image), whatever range the record gives; any other input keeps its
\* record's range.
C8_ConstantRange ==
    (pc = "variables_from_yaml" /\ ret.outcome = "returned") =>
        \A e \in Items(config.inputs) :
            LET var == ret.value[1][e.key]
            IN  IF truthy(get(e.rec, "is_constant"))
                THEN IF e.rec["type"] = Str("scalar")
                     THEN var.fields.value_range
                            = List(<<e.rec["default"].n, e.rec["default"].n>>)
                     ELSE var.fields.value_range
                            = List(<<SeqMin(var.fields.default.d),
                                     SeqMax(var.fields.default.d)>>)
                ELSE "range" \in DOMAIN e.rec /\ var.fields.value_range = e.rec["range"]

C8_Witness ==
    /\ pc = "variables_from_yaml"
    /\ ret.outcome = "returned"
    /\ Len(config.inputs) = 2
    /\ config.inputs[1].rec["type"] = Str("image")
    /\ truthy(get(config.inputs[1].rec, "is_constant"))
    /\ get(config.inputs[1].rec, "range") = List(<<0, 5>>)
    /\ ret.value[1]["x"].fields.value_range = List(<<1, 4>>)
    /\ ret.value[1]["w"].fields.value_range = List(<<0, 5>>)

ScalarRecordsWith(section, fields) ==
    \A e \in Items(section) : DOMAIN e.rec = fields /\ e.rec["type"] = Str("scalar")

\* The load returned one scalar variable per key, stored under the key, the
\* inputs with their record's default and range.
ScalarsPerKey ==
    /\ ret.outcome = "returned"
    /\ DOMAIN ret.value[1] = {e.key : e \in Items(config.inputs)}
    /\ DOMAIN ret.value[2] = {e.key : e \in Items(config.outputs)}
    /\ \A e \in Items(config.inputs) :
            /\ ret.value[1][e.key].cls = "ScalarInputVariable"
            /\ ret.value[1][e.key].fields.default = e.rec["default"]
            /\ ret.value[1][e.key].fields.value_range = e.rec["range"]
    /\ \A e \in Items(config.outputs) :
            ret.value[2][e.key].cls = "ScalarOutputVariable"

BothSections == config.is_dict /\ config.has_inputs /\ config.has_outputs

UnknownType(section) ==
    \E e \in Items(section) :
        "type" \in DOMAIN e.rec /\ e.rec["type"] \notin {Str("scalar"), Str("image")}

\* C10 as stated: either entry point, given a document that is no mapping,
\* lacks input_variables, lacks output_variables, or holds a record of a type
\* other than scalar and image, returns nothing.
C10_Original ==
    (/\ pc \in {"variables_from_yaml", "model_from_yaml"}
     /\ \/ ~config.is_dict
        \/ ~config.has_inputs
        \/ ~config.has_outputs
        \/ UnknownType(config.inputs)
        \/ UnknownType(config.outputs))
        => ret.outcome # "returned"

(***************************************************************************)
(* Properties of the model section (checked under SpecConfig).             *)
(***************************************************************************)
\* The version of the installed module a requirement names, when it is importable.
InstalledVersion(req) ==
    LET module == import(req.name)
    IN  IF module.outcome # "returned" THEN None
        ELSE LET version == getattr(module.value, "version")
             IN  IF version.outcome # "returned" THEN None ELSE version.value

\* A requirement gives a version string other than the installed module's version.
MismatchedVersion(model) ==
    \E i \in 1..Len(model.requirements) :
        LET req == model.requirements[i]
        IN  /\ req.version.t = "str"
            /\ InstalledVersion(req) # None
            /\ InstalledVersion(req) # req.version

\* Every requirement names an importable module and gives no version.
NoVersionOnly(model) ==
    /\ model.requirements # <<>>
    /\ \A i \in 1..Len(model.requirements) :
        /\ model.requirements[i].version = None
        /\ import(model.requirements[i].name).outcome = "returned"

\* The document without its requirements.
WithoutRequirements(cfg) ==
    [cfg EXCEPT !.model.has_requirements = FALSE, !.model.requirements = <<>>]

\* C11 as stated: a model_from_yaml call on a document whose requirements map a
\* module to a version string other than the installed version ends without
\* returning a class or a model; and a requirement with no version changes
\* nothing, the call ends as it does on the document without requirements.
C11_Original ==
    (/\ pc = "model_from_yaml"
     /\ config.is_dict
     /\ config.has_model
     /\ config.model.has_requirements)
        => /\ MismatchedVersion(config.model) => ret.outcome # "returned"
           /\ NoVersionOnly(config.model) =>
                ret = model_from_yaml(WithoutRequirements(config), model_class,
                                      load_model)

\* The part of C11 about a requirement with no version, on its own.
C11_NoVersionContinues ==
    (/\ pc = "model_from_yaml"
     /\ config.is_dict
     /\ config.has_model
     /\ config.model.has_requirements
     /\ NoVersionOnly(config.model))
        => ret = model_from_yaml(WithoutRequirements(config), model_class, load_model)

\* A dotted path names no object: its first component is no importable module,
\* or a later one is no attribute of the object reached so far (here the
\* attributes of a module are not themselves modules, so a path resolves when it
\* is a module, or a module and one of its attributes).
NamesNothing(path) ==
    \/ path[1] \notin DOMAIN Modules
    \/ Len(path) >= 2 /\ path[2] \notin DOMAIN Modules[path[1]]
    \/ Len(path) >= 3

\* The model section names a class by a dotted path that does not resolve.
Unresolvable(cfg) ==
    /\ cfg.is_dict
    /\ cfg.has_model
    /\ cfg.model.has_model_class
    /\ cfg.model.model_class.t = "str"
    /\ NamesNothing(cfg.model.model_class.s)

\* The stages of model_from_yaml before the class is resolved all pass.
ReachesModelClass(cfg, class_arg) ==
    /\ cfg.is_dict /\ cfg.has_inputs /\ cfg.has_outputs /\ cfg.has_model
    /\ build_section(cfg.inputs, model_from_yaml_input).outcome = "returned"
    /\ build_section(cfg.outputs, model_from_yaml_output).outcome = "returned"
    /\ class_arg = None
    /\ (cfg.model.has_requirements
            => check_requirements(cfg.model.requirements).outcome = "returned")

\* C12: a model_from_yaml call on a document whose model_class path does not
\* resolve (unknown module, or unknown attribute on the path) ends with an error
\* and returns nothing, with load_model true or false; when the call gets as far
\* as the path, it ends with the lookup's ModuleNotFoundError or AttributeError,
\* so before the class could be called.
C12_Unresolvable ==
    (pc = "model_from_yaml" /\ Unresolvable(config))
        => /\ ret.outcome \in {"raised", "exit"}
           /\ ret.value = None
           /\ ReachesModelClass(config, model_class)
                => /\ ret.outcome = "raised"
                   /\ ret.exc = IF config.model.model_class.s[1] \in DOMAIN Modules
                                THEN "AttributeError"
                                ELSE "ModuleNotFoundError"

\* A deferred load got as far as an unknown attribute of a known module and
\* ended with locate's AttributeError.
C12_Witness ==
    /\ pc = "model_from_yaml"
    /\ ~load_model
    /\ Unresolvable(config)
    /\ ReachesModelClass(config, model_class)
    /\ config.model.model_class = DottedStr(<<"pkg", "Absent">>)
    /\ ret = Raised("AttributeError")

\* The document with its variable sections only, loaded by model_from_yaml in
\* deferred mode with the class passed as argument: nothing after the variable
\* sections can end this call.
VariableSectionsOnly(cfg) ==
    [cfg EXCEPT !.has_model = FALSE, !.model = BaseModelSection]

model_from_yaml_variables(cfg) ==
    model_from_yaml(VariableSectionsOnly(cfg), Class(<<"pkg", "Model">>), FALSE)

\* C13 as stated: the mappings variables_from_yaml returns for a document are the
\* input_variables and output_variables entries of the keywords a deferred
\* model_from_yaml returns for it, and the two calls end on the variable
\* sections of the same documents.
C13_Original ==
    (pc = "model_from_yaml" /\ ~load_model)
        => LET variables == variables_from_yaml(config)
           IN  /\ ret.outcome = "returned"
                    => /\ variables.outcome = "returned"
                       /\ variables.value[1] = ret.value[2]["input_variables"]
                       /\ variables.value[2] = ret.value[2]["output_variables"]
               /\ (variables.outcome = "returned")
                    <=> (model_from_yaml_variables(config).outcome = "returned")

\* The same comparison on the documents in which no input record carries
\* is_constant and both sections are present, loaded with the class passed as
\* argument.
C13_PlainDocuments ==
    (/\ pc = "model_from_yaml"
     /\ ~load_model
     /\ config.is_dict
     /\ ~config.has_model
     /\ config.has_outputs
     /\ \A e \in Items(config.inputs) : "is_constant" \notin DOMAIN e.rec)
        => LET variables == variables_from_yaml(config)
           IN  /\ ret.outcome = "returned"
                    => /\ variables.outcome = "returned"
                       /\ variables.value[1] = ret.value[2]["input_variables"]
                       /\ variables.value[2] = ret.value[2]["output_variables"]
               /\ (variables.outcome = "returned")
                    <=> (model_from_yaml_variables(config).outcome = "returned")

\* The document of C13's divergence: one constant scalar input with a range.
C13_ConstantInput ==
    (/\ pc = "model_from_yaml"
     /\ ~load_model
     /\ ~config.has_model
     /\ config.has_outputs
     /\ ret.outcome = "returned"
     /\ Len(config.inputs) = 1
     /\ get(config.inputs[1].rec, "is_constant") = Bool(TRUE)
     /\ get(config.inputs[1].rec, "type") = Str("scalar"))
        => variables_from_yaml(config).value[1] = ret.value[2]["input_variables"]

\* The keywords model_from_yaml handed to the class (load_model) or returned
\* (deferred).
ConstructorKwargs ==
    IF load_model THEN ret.value.kwargs ELSE ret.value[2]

\* The mapping layer name -> dotted path of the document's custom_layers.
LayerPaths(model) ==
    [l \in {model.custom_layers[i].layer : i \in 1..Len(model.custom_layers)} |->
        (CHOOSE e \in Items(model.custom_layers) : e.layer = l).path]

\* C14 as stated: whatever model.kwargs holds, the keywords of a model_from_yaml
\* call that returns hold under input_variables and output_variables the
\* mappings rebuilt from the variable sections, and under custom_layers, when
\* the document gives it, every layer name with the object its path names and
\* no path string.
C14_Original ==
    (/\ pc = "model_from_yaml"
     /\ ret.outcome = "returned"
     /\ config.has_model
     /\ config.model.has_kwargs)
        => /\ ConstructorKwargs["input_variables"]
                = build_section(config.inputs, model_from_yaml_input).value
           /\ ConstructorKwargs["output_variables"]
                = build_section(config.outputs, model_from_yaml_output).value
           /\ config.model.has_custom_layers
                => /\ "custom_layers" \in DOMAIN ConstructorKwargs
                   /\ DOMAIN ConstructorKwargs["custom_layers"]
                        = DOMAIN LayerPaths(config.model)
                   /\ \A l \in DOMAIN LayerPaths(config.model) :
                        /\ ConstructorKwargs["custom_layers"][l].t # "str"
                        /\ Returned(ConstructorKwargs["custom_layers"][l])
                            = locate(LayerPaths(config.model)[l])

\* The part of C14 about custom_layers, on its own.
C14_CustomLayersResolved ==
    (/\ pc = "model_from_yaml"
     /\ ret.outcome = "returned"
     /\ config.has_model
     /\ config.model.has_kwargs
     /\ config.model.has_custom_layers)
        => /\ "custom_layers" \in DOMAIN ConstructorKwargs
           /\ DOMAIN ConstructorKwargs["custom_layers"] = DOMAIN LayerPaths(config.model)
           /\ \A l \in DOMAIN LayerPaths(config.model) :
                /\ ConstructorKwargs["custom_layers"][l].t # "str"
                /\ Returned(ConstructorKwargs["custom_layers"][l])
                    = locate(LayerPaths(config.model)[l])

====
